---- MODULE Spec2Model ----
(***************************************************************************)
(* A model of the OHDSI vocabulary tool's request handlers:                *)
(*   app/routers/search.py   search_concepts, get_embedding_model          *)
(*   app/routers/concept.py  get_concept, find_similar_concepts,           *)
(*                           search_descendants                            *)
(*   app/database.py         get_db                                        *)
(* The store (concept table, embeddings, closure table, relationship       *)
(* edges) is a read-only snapshot chosen in Init.  A request is handled in *)
(* one step (the handlers are synchronous) and its response is kept until  *)
(* the session that get_db opened for it is closed.  A client may send the *)
(* request it has just made once more; `previous` then holds the answer it *)
(* got before.                                                             *)
(*                                                                         *)
(* The handlers are plain `def` functions, which the framework runs on     *)
(* worker threads; SpecThreads follows concurrent semantic searches        *)
(* through get_embedding_model line by line (pc, local, constructed).      *)
(*                                                                         *)
(* Text is a sequence of one-character strings, so that LIKE patterns,     *)
(* lower(), strip() and trigrams are computed, not assumed.  Whether the   *)
(* response goes through the HX-Request template or is returned as a list  *)
(* does not change the result list and is left out.                        *)
(***************************************************************************)
EXTENDS Integers, Sequences, FiniteSets

VARIABLES concepts, closure, rels, embedding_model, session_open, request, response,
          previous, constructed, pc, local, run

vars == <<concepts, closure, rels, embedding_model, session_open, request, response,
          previous, constructed, pc, local, run>>

\* the state of the web application, which scripts/generate_embeddings.py leaves alone
app == <<embedding_model, session_open, request, response, previous, constructed,
         pc, local>>

(***************************************************************************)
(* Bounds of the exploration.                                              *)
(***************************************************************************)
MaxStore == 3
MaxLimit == 2
MaxThreads == 2

(***************************************************************************)
(* Python's None, for the Optional[str] parameters and nullable columns.   *)
(***************************************************************************)
None == "<None>"

(***************************************************************************)
(* Characters, in ASCII order.                                             *)
(***************************************************************************)
Chars == <<" ", "%", "A", "B", "\\", "_", "a", "b">>

Ord(c) == CHOOSE i \in 1..Len(Chars) : Chars[i] = c

Lower(c) == IF c = "A" THEN "a" ELSE IF c = "B" THEN "b" ELSE c

LowerStr(s) == [i \in 1..Len(s) |-> Lower(s[i])]

IsSpace(c) == c = " "

IsAlnum(c) == Lower(c) \in {"a", "b"}

\* str.strip(): the text without its leading and trailing whitespace.
Strip(s) ==
    LET idx == {i \in 1..Len(s) : ~IsSpace(s[i])}
        lo == CHOOSE i \in idx : \A j \in idx : i <= j
        hi == CHOOSE i \in idx : \A j \in idx : j <= i
    IN IF idx = {} THEN <<>> ELSE SubSeq(s, lo, hi)

\* The handlers' test for an empty query: not q or len(q.strip()) == 0.
IsBlankNoStrip(q) == Len(q) = 0

IsBlank(q) == Len(q) = 0 \/ Len(Strip(q)) = 0

\* Lexicographic order on text by character code (ORDER BY concept_name).
RECURSIVE StrLeq(_, _)
StrLeq(s, t) ==
    IF s = <<>> THEN TRUE
    ELSE IF t = <<>> THEN FALSE
    ELSE IF s[1] = t[1] THEN StrLeq(Tail(s), Tail(t))
    ELSE Ord(s[1]) < Ord(t[1])

(***************************************************************************)
(* SQL LIKE: '%' matches any run, '_' any one character, and a backslash   *)
(* makes the next pattern character literal.  No pattern built by the      *)
(* handlers ends in a lone backslash (each ends in '%').                   *)
(***************************************************************************)
RECURSIVE LikeMatch(_, _)
LikeMatch(p, s) ==
    IF p = <<>> THEN s = <<>>
    ELSE IF p[1] = "%"
        THEN \E k \in 0..Len(s) : LikeMatch(Tail(p), SubSeq(s, k + 1, Len(s)))
    ELSE IF p[1] = "_"
        THEN s # <<>> /\ LikeMatch(Tail(p), Tail(s))
    ELSE IF p[1] = "\\"
        THEN /\ Len(p) >= 2
             /\ s # <<>>
             /\ s[1] = p[2]
             /\ LikeMatch(SubSeq(p, 3, Len(p)), Tail(s))
    ELSE s # <<>> /\ s[1] = p[1] /\ LikeMatch(Tail(p), Tail(s))

\* column.ilike(pattern): LIKE with both sides case-folded.
ILike(s, p) == LikeMatch(LowerStr(p), LowerStr(s))

\* column.ilike(f"%{q}%")
ILikeContains(s, q) == ILike(s, <<"%">> \o q \o <<"%">>)

\* func.lower(column).startswith(q_lower): lower(column) LIKE q_lower || '%'
LowerStartsWith(s, q) == LikeMatch(LowerStr(q) \o <<"%">>, LowerStr(s))

\* func.lower(column) == q_lower
LowerEquals(s, q) == LowerStr(s) = LowerStr(q)

(***************************************************************************)
(* pg_trgm, which the fuzzy mode calls: the text is lower-cased and cut    *)
(* into words at non-alphanumeric characters, each word is padded with two *)
(* blanks before and one after, and similarity is the number of shared     *)
(* trigrams over the number of distinct trigrams of both.  A similarity is *)
(* kept as the pair <<shared, distinct>>.                                  *)
(***************************************************************************)
Words(s) ==
    {SubSeq(s, i, j) : <<i, j>> \in
        {ij \in (1..Len(s)) \X (1..Len(s)) :
            /\ ij[1] <= ij[2]
            /\ \A k \in ij[1]..ij[2] : IsAlnum(s[k])
            /\ (ij[1] = 1 \/ ~IsAlnum(s[ij[1] - 1]))
            /\ (ij[2] = Len(s) \/ ~IsAlnum(s[ij[2] + 1]))}}

WordTrigrams(w) ==
    LET padded == <<" ", " ">> \o w \o <<" ">>
    IN {SubSeq(padded, i, i + 2) : i \in 1..(Len(padded) - 2)}

Trigrams(s) == UNION {WordTrigrams(w) : w \in Words(LowerStr(s))}

\* func.similarity(a, b)
Similarity(a, b) ==
    LET ta == Trigrams(a)
        tb == Trigrams(b)
    IN IF ta = {} \/ tb = {} THEN <<0, 1>>
       ELSE <<Cardinality(ta \cap tb), Cardinality(ta \cup tb)>>

\* x >= y for similarities
SimGeq(x, y) == x[1] * y[2] >= y[1] * x[2]

\* pg_trgm.similarity_threshold, 0.3 unless the database sets another, in tenths
SimilarityThresholdTenths == 3

\* column.op("%")(q): similarity(column, q) >= pg_trgm.similarity_threshold
TrgmMatch(s, q) == SimGeq(Similarity(s, q), <<SimilarityThresholdTenths, 10>>)

(***************************************************************************)
(* The embedding provider: model.encode(q, normalize_embeddings=True) is a *)
(* fixed function of the text to a unit vector.  Unit vectors on the axes  *)
(* keep 1 - cosine_distance an integer (their dot product).                *)
(***************************************************************************)
ModelName == "all-MiniLM-L6-v2"

\* The objects that successive SentenceTransformer(...) calls create: each call
\* makes a new one.
Handles ==
    << ModelName, "all-MiniLM-L6-v2 #2", "all-MiniLM-L6-v2 #3", "all-MiniLM-L6-v2 #4" >>

NoEmbedding == <<>>

Encode(q) ==
    IF \E i \in 1..Len(q) : Lower(q[i]) = "a" THEN <<1, 0>> ELSE <<0, 1>>

\* 1 - embedding.cosine_distance(query_embedding), both of unit length
CosineSimilarity(u, v) == u[1] * v[1] + u[2] * v[2]

(***************************************************************************)
(* The concept table with its optional embedding (concept_embedding has    *)
(* one row per concept_id at most).  A store holds some rows of this pool. *)
(***************************************************************************)
Row(id, name, code, std, voc, dom, emb) ==
    [concept_id |-> id, concept_name |-> name, concept_code |-> code,
     standard_concept |-> std, vocabulary_id |-> voc, domain_id |-> dom,
     embedding |-> emb]

ConceptPool ==
    { Row(1, <<"a", "b">>,      <<"A">>,       "S",  "V1", "D1", <<1, 0>>),
      Row(2, <<"a">>,           <<"b", "a">>,  "S",  "V1", "D2", <<0, 1>>),
      Row(3, <<"b">>,           <<"a", "b">>,  None, "V2", "D1", NoEmbedding),
      Row(4, <<"b", " ", "a">>, <<"a", "\\">>, "C",  "V2", "D2", <<1, 0>>),
      Row(5, <<"A", "b">>,      <<"a">>,       None, "V1", "D1", <<-1, 0>>),
      Row(6, <<"a", "b">>,      <<"b", "_">>,  "S",  "V2", "D1", <<1, 0>>) }

ConceptStores == {S \in SUBSET ConceptPool : Cardinality(S) <= MaxStore}

(***************************************************************************)
(* The closure table concept_ancestor, keyed by (ancestor, descendant),    *)
(* and the edge table concept_relationship, keyed by (concept_id_1,        *)
(* concept_id_2, relationship_id).  Concept 9 is in no store.              *)
(***************************************************************************)
Anc(a, d, lo, hi) ==
    [ancestor_concept_id |-> a, descendant_concept_id |-> d,
     min_levels_of_separation |-> lo, max_levels_of_separation |-> hi]

ClosurePool ==
    { Anc(3, 3, 0, 0), Anc(1, 3, 1, 1), Anc(6, 3, 2, 2), Anc(3, 4, 1, 1),
      Anc(3, 5, 2, 2), Anc(3, 6, 1, 1), Anc(9, 3, 1, 1), Anc(2, 2, 1, 1) }

Edge(c1, c2, kind, invalid) ==
    [concept_id_1 |-> c1, concept_id_2 |-> c2, relationship_id |-> kind,
     invalid_reason |-> invalid]

RelPool ==
    { Edge(3, 1, "Maps to", None), Edge(3, 1, "Mapped from", None),
      Edge(3, 3, "Maps to", None), Edge(2, 3, "Maps to", None),
      Edge(1, 3, "Mapped from", None), Edge(1, 2, "Maps to", "D"),
      Edge(1, 4, "Is a", None) }

\* the relationship table, which concept_relationship.relationship_id references
RelationshipTable == {"Maps to", "Mapped from", "Is a"}

ConceptIds == {1, 2, 3, 9}

(***************************************************************************)
(* Request parameters.                                                     *)
(***************************************************************************)
Queries ==
    { <<>>, <<" ", " ">>, <<"a">>, <<"b">>, <<"A", "B">>, <<" ", "a">>,
      <<"a", "%">>, <<"_">>, <<"a", "\\">> }

FuzzyArgs == {None, "true", "1"}

SemanticArgs == {"true", "false"}

StandardOnlyArgs == {None, "true"}

\* "" is what a form sends for "all vocabularies"; an absent domain_id is None
VocabularyArgs == {"", "V1"}

DomainArgs == {None, "D1"}

Limits == (-1)..MaxLimit

NoRequest ==
    [op |-> "none", q |-> <<>>, vocabulary_id |-> None, domain_id |-> None,
     fuzzy |-> None, semantic |-> None, standard_only |-> None, limit |-> 0,
     concept_id |-> 0]

NoResponse ==
    [status |-> 0, results |-> <<>>, ran |-> {}, ancestors |-> <<>>,
     descendants |-> <<>>, relationships |-> <<>>, related |-> <<>>]

\* a 200 response carrying a result list
Ok(results, ran) == [NoResponse EXCEPT !.status = 200, !.results = results, !.ran = ran]

\* the store raised (PostgreSQL rejects a negative LIMIT): a 500, no result
ServerError(ran) == [NoResponse EXCEPT !.status = 500, !.ran = ran]

(***************************************************************************)
(* Query building blocks.                                                  *)
(***************************************************************************)
Min(a, b) == IF a <= b THEN a ELSE b

\* query.limit(n).all() on the rows in their order
LimitRowsDropped(rows, n) == rows

LimitRows(rows, n) == SubSeq(rows, 1, Min(n, Len(rows)))

\* ORDER BY: every arrangement of the rows that the ordering admits; rows the
\* ordering does not tell apart come in whatever order the store produces.
\* Each row comes paired with its rank; a lower rank comes first.
RECURSIVE Arrange(_)
Arrange(P) ==
    IF P = {} THEN {<<>>}
    ELSE LET firsts == {x \in P : \A y \in P : x[2] <= y[2]}
         IN UNION {{<<x[1]>> \o t : t \in Arrange(P \ {x})} : x \in firsts}

Ids(rows) == [i \in 1..Len(rows) |-> rows[i].concept_id]

Flag(b) == IF b THEN 1 ELSE 0

(***************************************************************************)
(* search_concepts                                                         *)
(***************************************************************************)
\* use_semantic = (semantic == "true"), use_fuzzy = (fuzzy == "true")
UseSemanticTruthy(semantic) == semantic # None

UseSemantic(semantic) == semantic = "true"

UseFuzzy(fuzzy) == fuzzy = "true"

\* if vocabulary_id: / if domain_id:  (None and "" are both falsy)
Truthy(v) == v # None /\ v # ""

\* the three filters, ANDed onto the strategy's predicate
PassFiltersNoStandard(c, vocabulary_id, domain_id, standard_only) ==
    /\ Truthy(vocabulary_id) => c.vocabulary_id = vocabulary_id
    /\ Truthy(domain_id) => c.domain_id = domain_id

PassFilters(c, vocabulary_id, domain_id, standard_only) ==
    /\ Truthy(vocabulary_id) => c.vocabulary_id = vocabulary_id
    /\ Truthy(domain_id) => c.domain_id = domain_id
    /\ standard_only = "true" => c.standard_concept = "S"

ExactPredicateTrigram(c, q) ==
    TrgmMatch(c.concept_name, q) \/ ILikeContains(c.concept_code, q)

\* exact mode: name ILIKE %q% OR code ILIKE %q%
ExactPredicate(c, q) ==
    ILikeContains(c.concept_name, q) \/ ILikeContains(c.concept_code, q)

\* fuzzy mode: name % q OR code ILIKE %q%
FuzzyPredicate(c, q) ==
    TrgmMatch(c.concept_name, q) \/ ILikeContains(c.concept_code, q)

\* semantic mode: the inner join with concept_embedding
SemanticPredicate(c) == c.embedding # NoEmbedding

\* a precedes-or-ties b in the lexicographic order of two integer tuples, larger first
RECURSIVE DescLeq(_, _)
DescLeq(x, y) ==
    IF x = <<>> THEN TRUE
    ELSE IF x[1] = y[1] THEN DescLeq(Tail(x), Tail(y))
    ELSE x[1] > y[1]

\* exact mode's five CASE ... DESC terms
ExactRank(c, q) ==
    << Flag(LowerEquals(c.concept_code, q)),
       Flag(LowerEquals(c.concept_name, q)),
       Flag(LowerStartsWith(c.concept_code, q)),
       Flag(LowerStartsWith(c.concept_name, q)),
       Flag(c.standard_concept = "S") >>

\* exact mode's ORDER BY: the five terms, then concept_name
ExactLeq(a, b, q) ==
    \/ ExactRank(a, q) # ExactRank(b, q) /\ DescLeq(ExactRank(a, q), ExactRank(b, q))
    \/ ExactRank(a, q) = ExactRank(b, q) /\ StrLeq(a.concept_name, b.concept_name)

\* fuzzy mode's ORDER BY: exact code match, name similarity descending, concept_name
FuzzyLeqNoCodeTerm(a, b, q) ==
    LET sa == Similarity(a.concept_name, q)
        sb == Similarity(b.concept_name, q)
    IN \/ ~SimGeq(sb, sa)
       \/ SimGeq(sa, sb) /\ SimGeq(sb, sa) /\ StrLeq(a.concept_name, b.concept_name)

FuzzyLeq(a, b, q) ==
    LET ea == Flag(LowerEquals(a.concept_code, q))
        eb == Flag(LowerEquals(b.concept_code, q))
        sa == Similarity(a.concept_name, q)
        sb == Similarity(b.concept_name, q)
    IN \/ ea > eb
       \/ ea = eb /\ ~SimGeq(sb, sa)
       \/ ea = eb /\ SimGeq(sa, sb) /\ SimGeq(sb, sa)
             /\ StrLeq(a.concept_name, b.concept_name)

\* SemanticLeq with the order turned round: similarity ascending
SemanticLeqAscending(a, b, q) ==
    CosineSimilarity(a.embedding, Encode(q)) <= CosineSimilarity(b.embedding, Encode(q))

\* semantic mode's ORDER BY similarity DESC
SemanticLeq(a, b, q) ==
    CosineSimilarity(a.embedding, Encode(q)) >= CosineSimilarity(b.embedding, Encode(q))

\* the strategy that runs for a non-blank query
Strategy(fuzzy, semantic) ==
    IF UseSemantic(semantic) THEN "semantic"
    ELSE IF UseFuzzy(fuzzy) THEN "fuzzy"
    ELSE "exact"

\* the rows the chosen strategy's query selects, filters applied
Selected(store, q, vocabulary_id, domain_id, fuzzy, semantic, standard_only) ==
    {c \in store :
        /\ PassFilters(c, vocabulary_id, domain_id, standard_only)
        /\ CASE Strategy(fuzzy, semantic) = "semantic" -> SemanticPredicate(c)
             [] Strategy(fuzzy, semantic) = "fuzzy" -> FuzzyPredicate(c, q)
             [] OTHER -> ExactPredicate(c, q)}

\* the orders the chosen strategy's ORDER BY admits for those rows
Ordered(S, q, fuzzy, semantic) ==
    CASE Strategy(fuzzy, semantic) = "semantic" ->
            Arrange({<<x, Cardinality({y \in S : ~SemanticLeq(x, y, q)})>> : x \in S})
      [] Strategy(fuzzy, semantic) = "fuzzy" ->
            Arrange({<<x, Cardinality({y \in S : ~FuzzyLeq(x, y, q)})>> : x \in S})
      [] OTHER ->
            Arrange({<<x, Cardinality({y \in S : ~ExactLeq(x, y, q)})>> : x \in S})

\* get_embedding_model() that builds a model on every call
LoadedModelFresh(current) == IF current = None THEN ModelName ELSE Handles[2]

\* get_embedding_model(): the handle after the call
LoadedModel(current) == IF current = None THEN ModelName ELSE current

SearchRequest(q, vocabulary_id, domain_id, fuzzy, semantic, standard_only, limit) ==
    [NoRequest EXCEPT !.op = "search", !.q = q, !.vocabulary_id = vocabulary_id,
                      !.domain_id = domain_id, !.fuzzy = fuzzy, !.semantic = semantic,
                      !.standard_only = standard_only, !.limit = limit]

\* What the query gives once built: a 500 when PostgreSQL rejects a negative
\* LIMIT, else the first `limit` rows of one of the orders the ORDER BY admits.
Answers(q, vocabulary_id, domain_id, fuzzy, semantic, standard_only, limit) ==
    IF limit < 0
      THEN {ServerError({Strategy(fuzzy, semantic)})}
      ELSE {Ok(Ids(LimitRows(rows, limit)), {Strategy(fuzzy, semantic)}) :
               rows \in Ordered(Selected(concepts, q, vocabulary_id, domain_id,
                                         fuzzy, semantic, standard_only),
                                q, fuzzy, semantic)}

Outcome(r, model, n) == [response |-> r, embedding_model |-> model, constructed |-> n]

\* Every way one call of the handler can end in the current state.  The semantic
\* branch first loads the model and encodes q; SentenceTransformer(...) and
\* model.encode(...) may raise, which the handler does not catch: a 500.
SearchOutcomes(q, vocabulary_id, domain_id, fuzzy, semantic, standard_only, limit) ==
    IF IsBlank(q)
      THEN {Outcome(Ok(<<>>, {}), embedding_model, constructed)}
    ELSE IF ~UseSemantic(semantic)
      THEN {Outcome(r, embedding_model, constructed) :
               r \in Answers(q, vocabulary_id, domain_id, fuzzy, semantic,
                             standard_only, limit)}
    ELSE LET built == IF embedding_model = None THEN constructed + 1 ELSE constructed
         IN {Outcome(ServerError({"semantic"}), embedding_model, constructed) :
                 x \in IF embedding_model = None THEN {1} ELSE {}}
            \cup {Outcome(ServerError({"semantic"}), LoadedModel(embedding_model), built)}
            \cup {Outcome(r, LoadedModel(embedding_model), built) :
                     r \in Answers(q, vocabulary_id, domain_id, fuzzy, semantic,
                                   standard_only, limit)}

SearchConcepts(q, vocabulary_id, domain_id, fuzzy, semantic, standard_only, limit) ==
    /\ request.op = "none"
    /\ session_open' = TRUE
    /\ request' = SearchRequest(q, vocabulary_id, domain_id, fuzzy, semantic,
                                standard_only, limit)
    /\ \E o \in SearchOutcomes(q, vocabulary_id, domain_id, fuzzy, semantic,
                               standard_only, limit) :
          /\ response' = o.response
          /\ embedding_model' = o.embedding_model
          /\ constructed' = o.constructed
    /\ UNCHANGED <<run, concepts, closure, rels, previous, pc, local>>

\* The client sends the search it has just made once more, inputs and store
\* unchanged, and keeps the answer it got before.
SearchAgain ==
    /\ request.op = "search"
    /\ \E o \in SearchOutcomes(request.q, request.vocabulary_id, request.domain_id,
                               request.fuzzy, request.semantic,
                               request.standard_only, request.limit) :
          /\ response' = o.response
          /\ embedding_model' = o.embedding_model
          /\ constructed' = o.constructed
    /\ previous' = response
    /\ UNCHANGED <<run, concepts, closure, rels, session_open, request, pc, local>>

(***************************************************************************)
(* get_concept                                                             *)
(***************************************************************************)
\* a lookup that finds a row for every id
ExistsAlways(store, id) == TRUE

\* db.query(Concept).filter(Concept.concept_id == id).first() finds a row
Exists(store, id) == \E c \in store : c.concept_id = id

\* rows in whatever order the store produces them (a query with no ORDER BY)
AnyOrder(S) == Arrange({<<x, 0>> : x \in S})

\* AncestorRows without the join with the ancestor's concept row
AncestorRowsNoJoin(store, table, id) ==
    {r \in table :
        /\ r.descendant_concept_id = id
        /\ r.ancestor_concept_id # id}

\* AncestorRows without "Exclude self"
AncestorRowsWithSelf(store, table, id) ==
    {r \in table :
        /\ Exists(store, r.ancestor_concept_id)
        /\ r.descendant_concept_id = id}

\* closure rows joined with the ancestor's concept row, self excluded
AncestorRows(store, table, id) ==
    {r \in table :
        /\ Exists(store, r.ancestor_concept_id)
        /\ r.descendant_concept_id = id
        /\ r.ancestor_concept_id # id}

\* DescendantRows without "Direct children only"
DescendantRowsAnyLevel(store, table, id) ==
    {r \in table :
        /\ Exists(store, r.descendant_concept_id)
        /\ r.ancestor_concept_id = id
        /\ r.descendant_concept_id # id}

\* closure rows joined with the descendant's concept row: direct children only
DescendantRows(store, table, id) ==
    {r \in table :
        /\ Exists(store, r.descendant_concept_id)
        /\ r.ancestor_concept_id = id
        /\ r.descendant_concept_id # id
        /\ r.min_levels_of_separation = 1}

\* the relationship list of the concept detail
RelationshipRows(edges, id) == {e \in edges : e.concept_id_1 = id}

\* the ancestors query without its order_by
AncestorOrderNone(S) == Arrange({<<x, 0>> : x \in S})

\* order_by(ConceptAncestor.min_levels_of_separation)
AncestorOrder(S) == Arrange({<<x, x.min_levels_of_separation>> : x \in S})

NavRequest(op, concept_id, q, limit) ==
    [NoRequest EXCEPT !.op = op, !.concept_id = concept_id, !.q = q, !.limit = limit]

\* the three queries that follow the lookup of the concept itself
DetailQueries == {"ancestors", "descendants", "relationships"}

\* The handler has no limit parameter: a limit in the query string is dropped.
GetConcept(concept_id, limit) ==
    /\ request.op = "none"
    /\ session_open' = TRUE
    /\ request' = NavRequest("get_concept", concept_id, <<>>, limit)
    /\ IF ~Exists(concepts, concept_id)
         THEN response' = [NoResponse EXCEPT !.status = 404]
         ELSE \E anc \in AncestorOrder(AncestorRows(concepts, closure, concept_id)),
                 desc \in AnyOrder(DescendantRows(concepts, closure, concept_id)),
                 rel \in AnyOrder(RelationshipRows(rels, concept_id)) :
                 response' = [NoResponse EXCEPT !.status = 200, !.ancestors = anc,
                                                !.descendants = desc,
                                                !.relationships = rel,
                                                !.ran = DetailQueries]
    /\ UNCHANGED <<run, concepts, closure, rels, embedding_model, previous, constructed,
                   pc, local>>

(***************************************************************************)
(* find_similar_concepts                                                   *)
(***************************************************************************)
MappingKinds == {"Maps to", "Mapped from"}

Related(kind, id) == [relationship_id |-> kind, concept_id |-> id]

\* edges out of the concept, joined with the target's concept row
OutgoingRows(store, edges, id) ==
    {e \in edges :
        /\ Exists(store, e.concept_id_2)
        /\ e.relationship_id \in RelationshipTable
        /\ e.concept_id_1 = id
        /\ e.relationship_id \in MappingKinds
        /\ e.invalid_reason = None}

\* edges into the concept, joined with the source's concept row
IncomingRows(store, edges, id) ==
    {e \in edges :
        /\ Exists(store, e.concept_id_1)
        /\ e.relationship_id \in RelationshipTable
        /\ e.concept_id_2 = id
        /\ e.relationship_id \in MappingKinds
        /\ e.invalid_reason = None}

\* the selected columns: relationship_id and the related concept's id
OutgoingColumns(rows) ==
    [i \in 1..Len(rows) |-> Related(rows[i].relationship_id, rows[i].concept_id_2)]

\* IncomingColumns selecting the edge's target instead of its source
IncomingColumnsTarget(rows) ==
    [i \in 1..Len(rows) |-> Related(rows[i].relationship_id, rows[i].concept_id_2)]

IncomingColumns(rows) ==
    [i \in 1..Len(rows) |-> Related(rows[i].relationship_id, rows[i].concept_id_1)]

\* Dedup that keeps every row
DedupOff(rows, seen) == rows

\* seen_concepts: the first row of each related concept, in order of first occurrence
RECURSIVE Dedup(_, _)
Dedup(rows, seen) ==
    IF rows = <<>> THEN <<>>
    ELSE IF rows[1].concept_id \in seen THEN Dedup(Tail(rows), seen)
    ELSE <<rows[1]>> \o Dedup(Tail(rows), seen \cup {rows[1].concept_id})

\* list(seen_concepts.values())[:limit]
RelatedConcepts(outgoing, incoming, limit) ==
    LimitRows(Dedup(outgoing \o incoming, {}), limit)

\* find_similar_concepts with get_concept's lookup in front: 404 for an unknown id
FindSimilarValidating(concept_id, limit) ==
    /\ request.op = "none"
    /\ session_open' = TRUE
    /\ request' = NavRequest("find_similar", concept_id, <<>>, limit)
    /\ response' = [NoResponse EXCEPT !.status = 404]
    /\ UNCHANGED <<run, concepts, closure, rels, embedding_model, previous, constructed,
                   pc, local>>

FindSimilarConcepts(concept_id, limit) ==
    /\ request.op = "none"
    /\ session_open' = TRUE
    /\ request' = NavRequest("find_similar", concept_id, <<>>, limit)
    /\ IF limit < 0
         THEN response' = ServerError({})
         ELSE \E out \in AnyOrder(OutgoingRows(concepts, rels, concept_id)),
                 inc \in AnyOrder(IncomingRows(concepts, rels, concept_id)) :
                 response' = [NoResponse EXCEPT
                     !.status = 200,
                     !.related = RelatedConcepts(
                                     OutgoingColumns(LimitRows(out, limit)),
                                     IncomingColumns(LimitRows(inc, limit)), limit)]
    /\ UNCHANGED <<run, concepts, closure, rels, embedding_model, previous, constructed,
                   pc, local>>

(***************************************************************************)
(* search_descendants                                                      *)
(***************************************************************************)
\* descendant_ids: direct children by the closure table alone
DescendantIds(table, id) ==
    {r.descendant_concept_id : r \in
        {x \in table : x.ancestor_concept_id = id /\ x.min_levels_of_separation = 1}}

\* concept_id IN descendant_ids AND concept_name ILIKE %q%
DescendantMatches(store, table, id, q) ==
    {c \in store :
        /\ c.concept_id \in DescendantIds(table, id)
        /\ ILikeContains(c.concept_name, q)}

SearchDescendants(concept_id, q, limit) ==
    /\ request.op = "none"
    /\ session_open' = TRUE
    /\ request' = NavRequest("search_descendants", concept_id, q, limit)
    /\ IF IsBlank(q) \/ DescendantIds(closure, concept_id) = {}
         THEN response' = Ok(<<>>, {})
         ELSE IF limit < 0
         THEN response' = ServerError({})
         ELSE \E rows \in AnyOrder(DescendantMatches(concepts, closure, concept_id, q)) :
                 response' = Ok(Ids(LimitRows(rows, limit)), {})
    /\ UNCHANGED <<run, concepts, closure, rels, embedding_model, previous, constructed,
                   pc, local>>

(***************************************************************************)
(* get_embedding_model, one line per step, on worker thread t.             *)
(***************************************************************************)
Threads == 1..MaxThreads

Goto(t, label) == pc' = [pc EXCEPT ![t] = label]

\* model = get_embedding_model()
Call(t) ==
    /\ pc[t] = "idle"
    /\ Goto(t, "test")
    /\ UNCHANGED <<run, concepts, closure, rels, embedding_model, session_open, request,
                   response, previous, constructed, local>>

\* if _embedding_model is None:
TestNone(t) ==
    /\ pc[t] = "test"
    /\ Goto(t, IF embedding_model = None THEN "construct" ELSE "return")
    /\ UNCHANGED <<run, concepts, closure, rels, embedding_model, session_open, request,
                   response, previous, constructed, local>>

\* SentenceTransformer("all-MiniLM-L6-v2"): a new object, not yet stored
Construct(t) ==
    /\ pc[t] = "construct"
    /\ constructed' = constructed + 1
    /\ local' = [local EXCEPT ![t] = Handles[constructed + 1]]
    /\ Goto(t, "assign")
    /\ UNCHANGED <<run, concepts, closure, rels, embedding_model, session_open, request,
                   response, previous>>

\* _embedding_model = <the new object>
Assign(t) ==
    /\ pc[t] = "assign"
    /\ embedding_model' = local[t]
    /\ Goto(t, "return")
    /\ UNCHANGED <<run, concepts, closure, rels, session_open, request, response, previous,
                   constructed, local>>

\* return _embedding_model
Return(t) ==
    /\ pc[t] = "return"
    /\ local' = [local EXCEPT ![t] = embedding_model]
    /\ Goto(t, "done")
    /\ UNCHANGED <<run, concepts, closure, rels, embedding_model, session_open, request,
                   response, previous, constructed>>

(***************************************************************************)
(* get_db: the session opened for a request is closed when the request     *)
(* ends, and the response has then been delivered.                         *)
(***************************************************************************)
\* the end of a request that leaves the session as it is
CloseSessionLeak ==
    /\ request.op # "none"
    /\ request' = NoRequest
    /\ response' = NoResponse
    /\ previous' = NoResponse
    /\ UNCHANGED <<run, concepts, closure, rels, embedding_model, session_open,
                   constructed, pc, local>>

CloseSession ==
    /\ request.op # "none"
    /\ session_open' = FALSE
    /\ request' = NoRequest
    /\ response' = NoResponse
    /\ previous' = NoResponse
    /\ UNCHANGED <<run, concepts, closure, rels, embedding_model, constructed, pc, local>>

\* scripts/generate_embeddings.py has not been started
NoRun ==
    [pc |-> "idle", dry_run |-> FALSE, batch_size |-> 0, todo |-> <<>>, i |-> 0,
     attempt |-> 0, errors |-> <<>>, written |-> {}, aborted |-> FALSE,
     connected |-> FALSE, encodes |-> <<>>, attempted |-> <<>>, failed |-> {}]

\* The snapshot: some concept rows, and the closure rows and edges of the pools.
\* The handlers do not rely on the foreign keys that models.py declares (they
\* join), so rows naming a concept that is not in the store are kept.
InitStore ==
    /\ concepts \in ConceptStores
    /\ closure = ClosurePool
    /\ rels = RelPool

Init ==
    /\ InitStore
    /\ embedding_model = None
    /\ session_open = FALSE
    /\ request = NoRequest
    /\ response = NoResponse
    /\ previous = NoResponse
    /\ constructed = 0
    /\ pc = [t \in Threads |-> "idle"]
    /\ local = [t \in Threads |-> None]
    /\ run = NoRun

Next ==
    \/ /\ request.op = "none"
       /\ \E q \in Queries, vocabulary_id \in VocabularyArgs, domain_id \in DomainArgs,
             fuzzy \in FuzzyArgs, semantic \in SemanticArgs,
             standard_only \in StandardOnlyArgs, limit \in Limits :
             SearchConcepts(q, vocabulary_id, domain_id, fuzzy, semantic, standard_only, limit)
    \/ /\ request.op = "none"
       /\ \E concept_id \in ConceptIds, limit \in Limits : GetConcept(concept_id, limit)
    \/ /\ request.op = "none"
       /\ \E concept_id \in ConceptIds, limit \in Limits :
             FindSimilarConcepts(concept_id, limit)
    \/ /\ request.op = "none"
       /\ \E concept_id \in ConceptIds, q \in Queries, limit \in Limits :
             SearchDescendants(concept_id, q, limit)
    \/ SearchAgain
    \/ CloseSession

Spec == Init /\ [][Next]_vars

(***************************************************************************)
(* Concurrent semantic searches.  Each thread is a worker running          *)
(* search_concepts for a non-blank query with semantic=true, followed from *)
(* the call of get_embedding_model to its return.  Nothing in the module   *)
(* serialises the threads: it holds no lock.                               *)
(***************************************************************************)
ThreadNext ==
    \E t \in Threads :
        \/ Call(t)
        \/ TestNone(t)
        \/ Construct(t)
        \/ Assign(t)
        \/ Return(t)

SpecThreads == Init /\ [][ThreadNext]_vars

(***************************************************************************)
(* Requests over one snapshot, each of them brought to its end: once the   *)
(* handler has returned or raised, the framework resumes get_db, whose     *)
(* finally clause runs.                                                    *)
(***************************************************************************)
SessionInit == Init /\ concepts = {c \in ConceptPool : c.concept_id \in {1, 3}}

SpecSessions == SessionInit /\ [][Next]_vars /\ WF_vars(CloseSession)

(***************************************************************************)
(* scripts/generate_embeddings.py: one run of main().  The script is a     *)
(* process of its own; run holds its position (pc), its arguments, the     *)
(* locals of main, the connection's state and the rows it has committed to *)
(* concept_embedding.  encodes, attempted and failed record what the run   *)
(* has done to each batch, named by its start index i.                     *)
(***************************************************************************)
MaxBatchSize == 2

\* argparse takes any integer for --batch-size
BatchSizes == (-1)..MaxBatchSize

\* @retry(stop=stop_after_attempt(3), ...)
StopAfterAttempt == 3

\* get_concepts_to_embed: the ids of the standard concepts with a name, with
\* resume only those without an embedding, ORDER BY concept_id
GetConceptsToEmbed(store, resume) ==
    LET S == {c \in store :
                 /\ c.standard_concept = "S"
                 /\ c.concept_name # <<>>
                 /\ resume => c.embedding = NoEmbedding}
    IN Ids(CHOOSE rows \in
               Arrange({<<c, Cardinality({d \in S : d.concept_id < c.concept_id})>> :
                           c \in S}) : TRUE)

\* concept_ids of concepts[i:i+batch_size]
BatchIds(r) ==
    {r.todo[k] : k \in (r.i + 1)..Min(r.i + r.batch_size, Len(r.todo))}

\* main() up to the loop: load the model and connect (sys.exit(1) on failure),
\* verify the prerequisites (an exception leaves through finally), fetch the
\* concepts, return when there are none.  range(0, total, 0) raises ValueError.
Main(dry_run, batch_size, resume) ==
    /\ run.pc = "idle"
    /\ LET todo == GetConceptsToEmbed(concepts, resume)
           args == [run EXCEPT !.dry_run = dry_run, !.batch_size = batch_size]
       IN \/ run' = [args EXCEPT !.pc = "exit"]
          \/ run' = [args EXCEPT !.pc = "crashed"]
          \/ run' = [args EXCEPT
                       !.todo = todo,
                       !.encodes = [k \in 1..Len(todo) |-> 0],
                       !.attempted = [k \in 1..Len(todo) |-> 0],
                       !.connected = Len(todo) # 0 /\ batch_size # 0,
                       !.pc = IF Len(todo) = 0 THEN "finished"
                              ELSE IF batch_size = 0 THEN "crashed"
                              ELSE "loop"]
    /\ UNCHANGED <<concepts, closure, rels, app>>

\* for i in range(0, total, batch_size): the next batch, or the end of the loop
ForBatch ==
    /\ run.pc = "loop"
    /\ run' = IF run.batch_size > 0 /\ run.i < Len(run.todo)
                THEN [run EXCEPT !.pc = "encode", !.attempt = 0,
                                 !.attempted[run.i + 1] = @ + 1]
                ELSE [run EXCEPT !.pc = "stats"]
    /\ UNCHANGED <<concepts, closure, rels, app>>

\* one attempt of generate_embeddings_batch: model.encode returns (ok) or raises;
\* tenacity calls again until the attempt that reaches stop_after_attempt, after
\* which its RetryError reaches the except clause of main
GenerateEmbeddingsBatch(ok) ==
    /\ run.pc = "encode"
    /\ LET tried == [run EXCEPT !.attempt = @ + 1, !.encodes[run.i + 1] = @ + 1]
       IN run' = IF ok THEN [tried EXCEPT !.pc = "insert"]
                 ELSE IF tried.attempt >= StopAfterAttempt
                   THEN [tried EXCEPT !.pc = "except", !.failed = @ \cup {run.i}]
                 ELSE tried
    /\ UNCHANGED <<concepts, closure, rels, app>>

\* insert_embeddings_batch, then pbar.update and the next iteration.  With
\* dry_run it returns at once.  Otherwise the batch is written and committed, or
\* an exception is raised before the commit: in the preparation of the rows
\* ("client"), or by a statement ("server"), which leaves the transaction of the
\* connection aborted, so that every later statement on it fails.
InsertEmbeddingsBatch(outcome) ==
    /\ run.pc = "insert"
    /\ run' = IF run.dry_run
                THEN [run EXCEPT !.pc = "loop", !.i = @ + run.batch_size]
              ELSE IF outcome = "ok" /\ ~run.aborted
                THEN [run EXCEPT !.pc = "loop", !.i = @ + run.batch_size,
                                 !.written = @ \cup BatchIds(run)]
              ELSE [run EXCEPT !.pc = "except", !.failed = @ \cup {run.i},
                               !.aborted = @ \/ outcome # "client"]
    /\ UNCHANGED <<concepts, closure, rels, app>>

\* an except clause that ends the loop
ExceptBreak ==
    /\ run.pc = "except"
    /\ run' = [run EXCEPT !.pc = "stats", !.errors = Append(@, run.i)]
    /\ UNCHANGED <<concepts, closure, rels, app>>

\* except Exception: errors.append(error_msg); continue
ExceptContinue ==
    /\ run.pc = "except"
    /\ run' = [run EXCEPT !.pc = "loop", !.errors = Append(@, run.i),
                          !.i = @ + run.batch_size]
    /\ UNCHANGED <<concepts, closure, rels, app>>

\* after the loop: get_embedding_stats unless dry_run, which raises on an
\* aborted transaction; finally: conn.close()
FinalStats ==
    /\ run.pc = "stats"
    /\ run' = [run EXCEPT !.connected = FALSE,
                          !.pc = IF ~run.dry_run /\ run.aborted THEN "crashed"
                                 ELSE "finished"]
    /\ UNCHANGED <<concepts, closure, rels, app>>

GenerateNext ==
    \/ \E dry_run \in BOOLEAN, batch_size \in BatchSizes, resume \in BOOLEAN :
          Main(dry_run, batch_size, resume)
    \/ ForBatch
    \/ \E ok \in BOOLEAN : GenerateEmbeddingsBatch(ok)
    \/ \E outcome \in {"ok", "client", "server"} : InsertEmbeddingsBatch(outcome)
    \/ ExceptContinue
    \/ FinalStats

\* the script runs on its own thread of control and its waits between
\* attempts are bounded: it always takes its next step
SpecGenerate == Init /\ [][GenerateNext]_vars /\ WF_vars(GenerateNext)

(***************************************************************************)
(* Properties.  A response is judged against the request and the store it  *)
(* answers.                                                                *)
(***************************************************************************)
ById(id) == CHOOSE c \in concepts : c.concept_id = id

ResultRows == [i \in 1..Len(response.results) |-> ById(response.results[i])]

ResultIds == {response.results[i] : i \in 1..Len(response.results)}

\* q occurs in s as a contiguous substring (Python's `in`).
Contains(s, q) ==
    \E i \in 1..(Len(s) - Len(q) + 1) : SubSeq(s, i, i + Len(q) - 1) = q

StartsWith(s, q) == Len(q) <= Len(s) /\ SubSeq(s, 1, Len(q)) = q

\* empty or nothing but whitespace
Blank(q) == \A i \in 1..Len(q) : q[i] = " "

\* no character that LIKE reads specially
NoMeta(q) == \A i \in 1..Len(q) : q[i] \notin {"%", "_", "\\"}

Searched == request.op = "search" /\ ~Blank(request.q)

SearchedExact ==
    Searched /\ request.semantic # "true" /\ request.fuzzy # "true"

SearchedFuzzy ==
    Searched /\ request.semantic # "true" /\ request.fuzzy = "true"

SearchedSemantic == Searched /\ request.semantic = "true"

NoFilters ==
    /\ request.vocabulary_id \in {None, ""}
    /\ request.domain_id \in {None, ""}
    /\ request.standard_only # "true"

\* C1: a search or a descendant search whose query is empty or only whitespace
\* answers 200 with an empty list, whatever the other parameters are.
C1_BlankQueryEmpty ==
    (request.op \in {"search", "search_descendants"} /\ Blank(request.q))
        => response.status = 200 /\ response.results = <<>>

C1_Witness ==
    /\ request.op = "search"
    /\ request.q = <<" ", " ">>
    /\ request.semantic = "true"
    /\ request.limit = -1
    /\ response.status = 200
    /\ Exists(concepts, 4)

\* C2: a non-blank search runs exactly one strategy: semantic when semantic is
\* "true", else fuzzy when fuzzy is "true", else exact; and what it returns is
\* selected by that strategy's predicate.
C2_OneStrategy ==
    Searched =>
        /\ Cardinality(response.ran) = 1
        /\ request.semantic = "true" => response.ran = {"semantic"}
        /\ (request.semantic # "true" /\ request.fuzzy = "true")
               => response.ran = {"fuzzy"}
        /\ (request.semantic # "true" /\ request.fuzzy # "true")
               => response.ran = {"exact"}
        /\ \A i \in 1..Len(response.results) :
               LET c == ResultRows[i]
               IN /\ "semantic" \in response.ran => c.embedding # NoEmbedding
                  /\ "fuzzy" \in response.ran =>
                         \/ TrgmMatch(c.concept_name, request.q)
                         \/ ILike(c.concept_code, <<"%">> \o request.q \o <<"%">>)
                  /\ "exact" \in response.ran =>
                         \/ ILike(c.concept_name, <<"%">> \o request.q \o <<"%">>)
                         \/ ILike(c.concept_code, <<"%">> \o request.q \o <<"%">>)

C2_Witness ==
    /\ Searched
    /\ request.semantic = "true"
    /\ request.fuzzy = "true"
    /\ response.ran = {"semantic"}
    /\ Len(response.results) = 2

\* C3: every concept a search returns passes every active filter: standard_concept
\* 'S' under standard_only "true", the vocabulary_id given, the domain_id given.
C3_FiltersHold ==
    (request.op = "search" /\ response.status = 200) =>
        \A i \in 1..Len(response.results) :
            LET c == ResultRows[i]
            IN /\ request.standard_only = "true" => c.standard_concept = "S"
               /\ request.vocabulary_id \notin {None, ""}
                      => c.vocabulary_id = request.vocabulary_id
               /\ request.domain_id \notin {None, ""}
                      => c.domain_id = request.domain_id

C3_Witness ==
    /\ SearchedFuzzy
    /\ request.standard_only = "true"
    /\ request.vocabulary_id = "V1"
    /\ request.domain_id = "D1"
    /\ response.results = <<1>>
    /\ Cardinality(concepts) = 3

\* C4 as stated, for a limit k >= 1: no list of any operation's answer, the
\* ancestor and direct-descendant lists of get_concept included, is longer than k.
C4_Original ==
    (response.status = 200 /\ request.limit >= 1) =>
        /\ Len(response.results) <= request.limit
        /\ Len(response.related) <= request.limit
        /\ Len(response.ancestors) <= request.limit
        /\ Len(response.descendants) <= request.limit

\* C4 amended: with limit k >= 0, a search in any mode, related-by-relationship and
\* descendant search answer with at most k entries (get_concept takes no limit).
C4_LimitCaps ==
    (response.status = 200 /\ request.limit >= 0
        /\ request.op \in {"search", "find_similar", "search_descendants"})
        => /\ Len(response.results) <= request.limit
           /\ Len(response.related) <= request.limit

C4_Witness ==
    /\ SearchedExact
    /\ NoFilters
    /\ request.limit = 2
    /\ Len(response.results) = 2
    /\ Cardinality({c \in concepts :
           Contains(LowerStr(c.concept_name), LowerStr(request.q))}) = 3

\* The exact-mode ranking key as the claim states it: the two "starts with" terms
\* compare text, character for character.
StatedExactRank(c, q) ==
    << Flag(LowerStr(c.concept_code) = LowerStr(q)),
       Flag(LowerStr(c.concept_name) = LowerStr(q)),
       Flag(StartsWith(LowerStr(c.concept_code), LowerStr(q))),
       Flag(StartsWith(LowerStr(c.concept_name), LowerStr(q))),
       Flag(c.standard_concept = "S") >>

StatedExactLeq(a, b, q) ==
    \/ StatedExactRank(a, q) # StatedExactRank(b, q)
         /\ DescLeq(StatedExactRank(a, q), StatedExactRank(b, q))
    \/ StatedExactRank(a, q) = StatedExactRank(b, q)
         /\ StrLeq(a.concept_name, b.concept_name)

\* q is in the name or the code, taken literally and ignoring case
StatedMatch(c, q) ==
    \/ Contains(LowerStr(c.concept_name), LowerStr(q))
    \/ Contains(LowerStr(c.concept_code), LowerStr(q))

\* C5: an exact-mode result list is sorted by (code equals q, name equals q, code
\* starts with q, name starts with q, standard, name), and when a matching concept
\* that passes the filters has code equal to q and limit >= 1, the first result
\* has code equal to q.
C5_ExactSorted ==
    (SearchedExact /\ response.status = 200) =>
        /\ \A i, j \in 1..Len(response.results) :
               i < j => StatedExactLeq(ResultRows[i], ResultRows[j], request.q)
        /\ (/\ request.limit >= 1
            /\ \E c \in concepts :
                  /\ StatedMatch(c, request.q)
                  /\ PassFilters(c, request.vocabulary_id, request.domain_id,
                                 request.standard_only)
                  /\ LowerStr(c.concept_code) = LowerStr(request.q))
               => /\ Len(response.results) >= 1
                  /\ LowerStr(ResultRows[1].concept_code) = LowerStr(request.q)

\* C6: in exact mode the candidates are exactly the concepts whose name or code
\* contains q literally, ignoring case (seen where no filter and no limit cuts).
C6_ExactCandidates ==
    (SearchedExact /\ response.status = 200 /\ NoFilters
        /\ Cardinality(concepts) <= request.limit)
        => ResultIds = {c.concept_id : c \in {x \in concepts : StatedMatch(x, request.q)}}

C8_FoundByCode ==
    \A c \in concepts :
        (/\ Searched
         /\ request.semantic # "true"
         /\ response.status = 200
         /\ NoFilters
         /\ ~Blank(c.concept_code)
         /\ request.q = c.concept_code
         /\ Cardinality({d \in concepts :
                LowerStr(d.concept_code) = LowerStr(request.q)}) <= request.limit)
            => c.concept_id \in ResultIds

\* C9: in fuzzy mode the candidates are exactly the concepts whose name passes the
\* trigram threshold against q or whose code contains q literally, ignoring case
\* (seen where no filter and no limit cuts).
C9_FuzzyCandidates ==
    (SearchedFuzzy /\ response.status = 200 /\ NoFilters
        /\ Cardinality(concepts) <= request.limit)
        => ResultIds = {c.concept_id : c \in {x \in concepts :
                            \/ TrgmMatch(x.concept_name, request.q)
                            \/ Contains(LowerStr(x.concept_code), LowerStr(request.q))}}

\* C10: a fuzzy-mode result list is sorted by (code equals q ignoring case, true
\* first; name similarity to q, descending; name, ascending), so a concept whose
\* code equals q precedes every concept whose code does not.
C10_FuzzySorted ==
    (SearchedFuzzy /\ response.status = 200) =>
        \A i, j \in 1..Len(response.results) :
            i < j =>
                LET a == ResultRows[i]
                    b == ResultRows[j]
                    ea == LowerStr(a.concept_code) = LowerStr(request.q)
                    eb == LowerStr(b.concept_code) = LowerStr(request.q)
                    sa == Similarity(a.concept_name, request.q)
                    sb == Similarity(b.concept_name, request.q)
                IN /\ eb => ea
                   /\ (ea <=> eb) => sa[1] * sb[2] >= sb[1] * sa[2]
                   /\ ((ea <=> eb) /\ sa[1] * sb[2] = sb[1] * sa[2])
                          => StrLeq(a.concept_name, b.concept_name)

C10_Witness ==
    /\ SearchedFuzzy
    /\ response.status = 200
    /\ Len(response.results) >= 2
    /\ LowerStr(ResultRows[1].concept_code) = LowerStr(request.q)
    /\ LowerStr(ResultRows[2].concept_code) # LowerStr(request.q)
    /\ ~SimGeq(Similarity(ResultRows[1].concept_name, request.q),
               Similarity(ResultRows[2].concept_name, request.q))

\* the concepts that pass the request's filters
Filtered ==
    {c \in concepts :
        /\ request.standard_only = "true" => c.standard_concept = "S"
        /\ request.vocabulary_id \notin {None, ""} => c.vocabulary_id = request.vocabulary_id
        /\ request.domain_id \notin {None, ""} => c.domain_id = request.domain_id}

\* similarity of a concept's stored embedding to the query vector
QuerySimilarity(c) == CosineSimilarity(c.embedding, Encode(request.q))

\* C11: a semantic-mode result is the first `limit` entries of the concepts that
\* have a stored embedding and pass the filters, by similarity descending: it has
\* min(limit, number of such concepts) distinct entries, all of them such concepts,
\* in non-increasing similarity, and no concept left out is more similar than one
\* returned; a concept without a stored embedding is never returned.
C11_SemanticTopK ==
    (SearchedSemantic /\ response.status = 200) =>
        LET eligible == {c \in Filtered : c.embedding # <<>>}
            n == Len(response.results)
        IN /\ n = IF request.limit <= Cardinality(eligible)
                    THEN request.limit ELSE Cardinality(eligible)
           /\ Cardinality(ResultIds) = n
           /\ \A i \in 1..n : ResultRows[i] \in eligible
           /\ \A i, j \in 1..n :
                 i < j => QuerySimilarity(ResultRows[i]) >= QuerySimilarity(ResultRows[j])
           /\ \A c \in eligible : c.concept_id \notin ResultIds =>
                 \A i \in 1..n : QuerySimilarity(ResultRows[i]) >= QuerySimilarity(c)

C11_Witness ==
    /\ SearchedSemantic
    /\ response.status = 200
    /\ request.limit = 2
    /\ Len(response.results) = 2
    /\ QuerySimilarity(ResultRows[1]) > QuerySimilarity(ResultRows[2])
    /\ \E c \in Filtered : c.embedding = <<>>
    /\ Cardinality({c \in Filtered : c.embedding # <<>>}) = 2

\* C12: two consecutive semantic searches with identical inputs on an unchanged
\* store, both answered, return the same ordered sequence of concept ids, also
\* when several candidates are equally similar to the query.
C12_SemanticDeterministic ==
    (SearchedSemantic /\ previous.status = 200 /\ response.status = 200)
        => response.results = previous.results

\* C20: two exact searches with identical inputs on an unchanged store return
\* the same ordered sequence of concept ids, also when distinct concepts share
\* the same concept_name and the same values of the five ranking criteria.
C20_ExactDeterministic ==
    (SearchedExact /\ previous.status = 200 /\ response.status = 200)
        => response.results = previous.results

GotConcept == request.op = "get_concept" /\ response.status = 200

\* C13: for an existing concept c, neither the ancestor list nor the
\* direct-descendant list of get_concept(c) contains c itself, whatever self rows
\* (c, c) the closure table holds; and when every closure row naming c is a self
\* row, both lists are empty.
C13_NoSelf ==
    GotConcept =>
        /\ \A i \in 1..Len(response.ancestors) :
              response.ancestors[i].ancestor_concept_id # request.concept_id
        /\ \A i \in 1..Len(response.descendants) :
              response.descendants[i].descendant_concept_id # request.concept_id
        /\ (\A r \in closure :
               request.concept_id \in {r.ancestor_concept_id, r.descendant_concept_id}
                   => r.ancestor_concept_id = r.descendant_concept_id)
              => response.ancestors = <<>> /\ response.descendants = <<>>

C13_Witness ==
    /\ GotConcept
    /\ \E r \in closure :
          /\ r.ancestor_concept_id = request.concept_id
          /\ r.descendant_concept_id = request.concept_id
          /\ r.min_levels_of_separation = 1
    /\ response.ancestors = <<>>
    /\ response.descendants = <<>>

\* C14: every row of the direct-descendant list of get_concept(c) has c as its
\* ancestor and min_levels_of_separation exactly 1.
C14_DirectChildren ==
    GotConcept =>
        \A i \in 1..Len(response.descendants) :
            /\ response.descendants[i].ancestor_concept_id = request.concept_id
            /\ response.descendants[i].min_levels_of_separation = 1

C14_Witness ==
    /\ GotConcept
    /\ Len(response.descendants) = 1
    /\ \E r \in closure :
          /\ r.ancestor_concept_id = request.concept_id
          /\ r.descendant_concept_id # request.concept_id
          /\ r.min_levels_of_separation = 2
          /\ \E c \in concepts : c.concept_id = r.descendant_concept_id

FoundSimilar == request.op = "find_similar" /\ response.status = 200

RelatedIds == {response.related[i].concept_id : i \in 1..Len(response.related)}

\* C15: the list find_similar_concepts(c) returns holds no concept id twice,
\* and every entry comes from an edge between c and that concept, of the entry's
\* relationship kind, whose invalid_reason is null.
C15_NoDuplicateValid ==
    FoundSimilar =>
        /\ \A i, j \in 1..Len(response.related) :
              i # j => response.related[i].concept_id # response.related[j].concept_id
        /\ \A i \in 1..Len(response.related) :
              \E e \in rels :
                  /\ e.invalid_reason = None
                  /\ e.relationship_id = response.related[i].relationship_id
                  /\ \/ /\ e.concept_id_1 = request.concept_id
                        /\ e.concept_id_2 = response.related[i].concept_id
                     \/ /\ e.concept_id_2 = request.concept_id
                        /\ e.concept_id_1 = response.related[i].concept_id

C15_Witness ==
    /\ FoundSimilar
    /\ request.limit = 2
    /\ Len(response.related) = 1
    /\ \E e \in rels :
          /\ e.concept_id_1 = request.concept_id
          /\ e.invalid_reason # None
          /\ e.relationship_id = "Maps to"
          /\ \E c \in concepts : c.concept_id = e.concept_id_2
    /\ \E e, f \in rels :
          /\ e.concept_id_1 = request.concept_id /\ e.invalid_reason = None
          /\ f.concept_id_2 = request.concept_id /\ f.invalid_reason = None
          /\ e.concept_id_2 = f.concept_id_1
          /\ e.concept_id_2 \in RelatedIds

\* C16: get_concept with an id that is not in the concept table ends as a 404
\* with no further data: none of the ancestor, descendant or relationship
\* queries is run.
C16_NotFound ==
    (request.op = "get_concept" /\ \A c \in concepts : c.concept_id # request.concept_id)
        => /\ response.status = 404
           /\ response.ran = {}
           /\ response.ancestors = <<>>
           /\ response.descendants = <<>>
           /\ response.relationships = <<>>

C16_Witness ==
    /\ request.op = "get_concept"
    /\ response.status = 404
    /\ \E r \in closure :
          /\ r.ancestor_concept_id = request.concept_id
          /\ r.min_levels_of_separation = 1
          /\ \E c \in concepts : c.concept_id = r.descendant_concept_id

\* C17: under any interleaving of concurrent semantic searches in one process,
\* the embedding model is constructed at most once, and all callers of
\* get_embedding_model that have returned hold the same model handle.
C17_ModelBuiltOnce ==
    /\ constructed <= 1
    /\ \A t, u \in Threads :
          (pc[t] = "done" /\ pc[u] = "done") => local[t] = local[u]

\* C18: a search request that is blank, or whose semantic flag is not "true",
\* never loads or calls the embedding provider: handling it leaves the model
\* handle and the count of constructions as they were, runs no semantic step,
\* and ends as a 200 (limit >= 0) whether or not the provider works.
C18_ProviderUntouched ==
    [][ (/\ request.op \in {"none", "search"}
         /\ request'.op = "search"
         /\ Blank(request'.q) \/ request'.semantic # "true")
            => /\ embedding_model' = embedding_model
               /\ constructed' = constructed
               /\ "semantic" \notin response'.ran
               /\ request'.limit >= 0 => response'.status = 200 ]_vars

C18_Witness ==
    /\ Searched
    /\ request.semantic # "true"
    /\ request.fuzzy = "true"
    /\ response.status = 200
    /\ Len(response.results) = 2
    /\ embedding_model = None
    /\ constructed = 0

\* the eligible edges of the requested concept: kind 'Maps to' or 'Mapped from',
\* invalid_reason null, the neighbour a stored concept
EligibleOut ==
    {e \in rels :
        /\ e.concept_id_1 = request.concept_id
        /\ e.relationship_id \in {"Maps to", "Mapped from"}
        /\ e.invalid_reason = None
        /\ \E c \in concepts : c.concept_id = e.concept_id_2}

EligibleIn ==
    {e \in rels :
        /\ e.concept_id_2 = request.concept_id
        /\ e.relationship_id \in {"Maps to", "Mapped from"}
        /\ e.invalid_reason = None
        /\ \E c \in concepts : c.concept_id = e.concept_id_1}

OutNeighbours == {e.concept_id_2 : e \in EligibleOut}

InNeighbours == {e.concept_id_1 : e \in EligibleIn}

\* C19: find_similar_concepts(c, limit) returns the first `limit` entries of the
\* first-occurrence deduplication of all eligible outgoing edges followed by all
\* eligible incoming edges: min(limit, number of distinct eligible neighbours)
\* entries with distinct ids; neighbours reached by an outgoing edge come before
\* the others, which appear only once every outgoing neighbour is listed; and a
\* neighbour reached by an outgoing edge carries the kind of an outgoing edge.
C19_DedupThenLimit ==
    (FoundSimilar /\ request.limit >= 0) =>
        LET n == Len(response.related)
            all == OutNeighbours \cup InNeighbours
        IN /\ n = IF request.limit <= Cardinality(all)
                    THEN request.limit ELSE Cardinality(all)
           /\ Cardinality(RelatedIds) = n
           /\ RelatedIds \subseteq all
           /\ \A i \in 1..n :
                 response.related[i].concept_id \notin OutNeighbours
                     => OutNeighbours \subseteq RelatedIds
           /\ \A i, j \in 1..n :
                 (i < j /\ response.related[j].concept_id \in OutNeighbours)
                     => response.related[i].concept_id \in OutNeighbours
           /\ \A i \in 1..n :
                 \E e \in IF response.related[i].concept_id \in OutNeighbours
                            THEN {x \in EligibleOut :
                                     x.concept_id_2 = response.related[i].concept_id}
                            ELSE {x \in EligibleIn :
                                     x.concept_id_1 = response.related[i].concept_id} :
                     e.relationship_id = response.related[i].relationship_id

AncestorSet == {response.ancestors[i] : i \in 1..Len(response.ancestors)}

\* C21 as stated: the ancestor list of get_concept(c) is exactly the closure rows
\* with descendant c and min_levels_of_separation > 0 whose ancestor concept
\* exists.
C21_Original ==
    GotConcept =>
        AncestorSet = {r \in closure :
                          /\ r.descendant_concept_id = request.concept_id
                          /\ r.min_levels_of_separation > 0
                          /\ \E c \in concepts : c.concept_id = r.ancestor_concept_id}

\* C21 amended: the ancestor list of get_concept(c) is exactly the closure rows
\* with descendant c and an ancestor other than c whose ancestor concept exists,
\* each listed once, whatever their separation.
C21_AncestorsById ==
    GotConcept =>
        /\ AncestorSet = {r \in closure :
                             /\ r.descendant_concept_id = request.concept_id
                             /\ r.ancestor_concept_id # request.concept_id
                             /\ \E c \in concepts : c.concept_id = r.ancestor_concept_id}
        /\ Cardinality(AncestorSet) = Len(response.ancestors)

C21_Witness ==
    /\ GotConcept
    /\ Len(response.ancestors) = 2
    /\ \E r \in closure :
          /\ r.descendant_concept_id = request.concept_id
          /\ r.ancestor_concept_id = request.concept_id
    /\ \E r \in closure :
          /\ r.descendant_concept_id = request.concept_id
          /\ \A c \in concepts : c.concept_id # r.ancestor_concept_id

\* C22: the ancestor list of get_concept(c) is in ascending order of
\* min_levels_of_separation.
C22_AncestorsAscending ==
    GotConcept =>
        \A i, j \in 1..Len(response.ancestors) :
            i < j => response.ancestors[i].min_levels_of_separation
                        <= response.ancestors[j].min_levels_of_separation

C22_Witness ==
    /\ GotConcept
    /\ Len(response.ancestors) = 2
    /\ response.ancestors[1].min_levels_of_separation = 1
    /\ response.ancestors[2].min_levels_of_separation = 2

UnknownId == \A c \in concepts : c.concept_id # request.concept_id

\* C23 as stated: for an id that is not in the concept table, ancestors, direct
\* descendants and related-by-relationship each come back as an empty
\* collection, with no error and no not-found signal.
C23_Original ==
    (/\ UnknownId
     /\ \/ request.op = "get_concept"
        \/ request.op = "find_similar" /\ request.limit >= 0)
        => /\ response.status = 200
           /\ response.ancestors = <<>>
           /\ response.descendants = <<>>
           /\ response.related = <<>>

\* C23 amended: for an id that is not in the concept table, get_concept answers
\* 404 and builds no ancestor or descendant list; find_similar_concepts does not
\* look the id up: it answers 200 with the neighbours that eligible edges naming
\* the id give, so an empty list when no edge names the id.
C23_UnknownId ==
    UnknownId =>
        /\ request.op = "get_concept" =>
              /\ response.status = 404
              /\ response.ancestors = <<>>
              /\ response.descendants = <<>>
        /\ (request.op = "find_similar" /\ request.limit >= 0) =>
              /\ response.status = 200
              /\ RelatedIds \subseteq OutNeighbours \cup InNeighbours
              /\ (\A e \in rels : request.concept_id
                                     \notin {e.concept_id_1, e.concept_id_2})
                    => response.related = <<>>

C23_Witness ==
    /\ request.op = "find_similar"
    /\ UnknownId
    /\ response.status = 200
    /\ response.related = <<>>
    /\ \E r \in closure : r.ancestor_concept_id = request.concept_id
    /\ concepts # {}

\* C24: for a non-blank q, every concept search_descendants(a, q, limit) returns
\* is a direct descendant of a (a closure row with ancestor a and separation 1
\* names it) whose name contains q, ignoring case; and when a has no direct
\* descendant the result is empty.
C24_DescendantSearch ==
    (request.op = "search_descendants" /\ ~Blank(request.q) /\ response.status = 200) =>
        /\ \A i \in 1..Len(response.results) :
              /\ \E r \in closure :
                    /\ r.ancestor_concept_id = request.concept_id
                    /\ r.descendant_concept_id = response.results[i]
                    /\ r.min_levels_of_separation = 1
              /\ Contains(LowerStr(ResultRows[i].concept_name), LowerStr(request.q))
        /\ (\A r \in closure :
               r.ancestor_concept_id = request.concept_id
                   => r.min_levels_of_separation # 1)
              => response.results = <<>>

\* C25: no navigator operation hands out a relationship edge whose
\* invalid_reason is non-null: the relationship list of get_concept(c) holds only
\* edges with null invalid_reason, and so does every edge behind an entry of
\* find_similar_concepts(c).
C25_NoInvalidEdge ==
    /\ GotConcept =>
          \A i \in 1..Len(response.relationships) :
              response.relationships[i].invalid_reason = None
    /\ FoundSimilar => RelatedIds \subseteq OutNeighbours \cup InNeighbours

\* C26: for every non-blank q, mode and filter set, search_concepts(q) returns
\* what search_concepts returns for q with its leading and trailing whitespace
\* removed: its answer is one of the answers the trimmed query gets on the same
\* store.
C26_TrimmedQuery ==
    (Searched /\ response.status = 200) =>
        response \in Answers(Strip(request.q), request.vocabulary_id,
                             request.domain_id, request.fuzzy, request.semantic,
                             request.standard_only, request.limit)

SelfRow == \E c \in concepts : c.concept_id = request.concept_id

SelfEdges ==
    {e \in rels :
        /\ e.concept_id_1 = request.concept_id
        /\ e.concept_id_2 = request.concept_id
        /\ e.relationship_id \in {"Maps to", "Mapped from"}
        /\ e.invalid_reason = None}

\* C27 as stated: find_similar_concepts(c) never lists c itself among the
\* related concepts, whatever edges the store holds.
C27_Original == FoundSimilar => request.concept_id \notin RelatedIds

\* C27: find_similar_concepts(c) lists c itself only when the store holds a
\* valid self-referential 'Maps to' or 'Mapped from' edge (c, c) and the concept
\* row of c; with such an edge, the row and a limit of at least 1, c is the
\* first entry of the list.
C27_SelfOnlyBySelfEdge ==
    FoundSimilar =>
        /\ request.concept_id \in RelatedIds =>
              SelfEdges # {} /\ SelfRow
        /\ (/\ SelfEdges # {}
            /\ SelfRow
            /\ request.limit >= 1
            /\ OutNeighbours = {request.concept_id})
              => response.related[1].concept_id = request.concept_id

C27_Witness ==
    /\ FoundSimilar
    /\ SelfEdges # {}
    /\ InNeighbours \ {request.concept_id} # {}
    /\ request.concept_id \in RelatedIds

\* C28: a semantic request that finds the model handle unset either fails in
\* the construction, which leaves the handle unset and counts no construction
\* (the failure is not cached, so the next semantic request constructs again), or
\* sets the handle with exactly one construction; and once the handle is set, no
\* later sequential request resets it, replaces it or constructs again.
C28_FailureNotCached ==
    [][ /\ embedding_model # None
            => embedding_model' = embedding_model /\ constructed' = constructed
        /\ embedding_model = None
            => \/ embedding_model' = None /\ constructed' = constructed
               \/ embedding_model' = ModelName /\ constructed' = constructed + 1
        /\ (/\ embedding_model = None
            /\ request'.op = "search"
            /\ request'.semantic = "true"
            /\ ~Blank(request'.q)
            /\ request'.limit >= 0)
            => \/ embedding_model' = None /\ response'.status = 500
               \/ embedding_model' = ModelName ]_vars

\* two semantic requests in a row have failed in the construction: the handle is
\* still unset and nothing has been constructed
C28_Witness ==
    /\ SearchedSemantic
    /\ ~Blank(request.q)
    /\ request.limit >= 0
    /\ previous.status = 500
    /\ response.status = 500
    /\ embedding_model = None
    /\ constructed = 0

\* C29: every session that get_db opens for a request is closed when the
\* request ends, whether the handler returned or raised: while no request is in
\* progress no session is open, and every open session is eventually closed.
C29_SessionClosed ==
    /\ [](request.op = "none" => ~session_open)
    /\ session_open ~> ~session_open

\* get_concept has raised its 404 and the session of the request is still open
C29_Witness ==
    /\ request.op = "get_concept"
    /\ response.status = 404
    /\ session_open

\* the start indexes of the batches of the run
BatchStarts ==
    {b \in 0..(Len(run.todo) - 1) : run.batch_size > 0 /\ b % run.batch_size = 0}

Ended == run.pc \in {"exit", "crashed", "finished"}

\* C30: in a run of the embedding generation the encode step of a batch is
\* attempted at most 3 times and no batch is started twice; when the loop is
\* over, every batch has been started exactly once and the error list holds
\* exactly the batches that failed, in encoding or in insertion, each once, so a
\* failed batch stopped none of the later ones; with --dry-run nothing is ever
\* written to the store; and the run always ends.
C30_FailingBatchSkipped ==
    /\ [](/\ \A k \in 1..Len(run.encodes) : run.encodes[k] <= 3
          /\ \A k \in 1..Len(run.attempted) : run.attempted[k] <= 1
          /\ run.dry_run => run.written = {}
          /\ run.pc = "stats" =>
                /\ \A b \in BatchStarts : run.attempted[b + 1] = 1
                /\ {run.errors[k] : k \in 1..Len(run.errors)} = run.failed
                /\ Len(run.errors) = Cardinality(run.failed)
                /\ \A b \in BatchStarts \ run.failed :
                      run.dry_run \/ run.todo[b + 1] \in run.written)
    /\ <>Ended

\* the first batch failed in its third encode attempt and was recorded, and a
\* later batch has been written
C30_Witness ==
    /\ run.pc = "finished"
    /\ run.errors = <<0>>
    /\ run.encodes[1] = 3
    /\ run.written # {}

====
